---- MODULE Spec2Model ----
(***************************************************************************)
(* Nexcart storefront (src/app.py): the Flask request handlers as a state  *)
(* machine over the three tables (User, Product, Order), the upload        *)
(* directory and one visitor's session.  Each action is one request,       *)
(* handled from start to end: the handlers run one after another.  The     *)
(* SpecConcurrent specifications take register and checkout statement by   *)
(* statement instead, two requests at a time.                              *)
(*                                                                         *)
(* Prices are Python floats in the source; the model keeps them as exact   *)
(* integers in cents (49.99 is 4999).                                      *)
(*                                                                         *)
(* request and response hold the request handled last and what it          *)
(* returned; a flashed message is kept in the response that carries it.    *)
(* db.session.commit() may raise in any handler (commit_ok = FALSE); an    *)
(* exception no handler catches ends the request with a 500.               *)
(***************************************************************************)
EXTENDS Integers, Sequences, FiniteSets, TLC

VARIABLES users, products, orders, images, session, request, response, shownTotal,
          inflight

vars == <<users, products, orders, images, session, request, response, shownTotal,
          inflight>>

(***************************************************************************)
(* Bounds of the model.                                                    *)
(***************************************************************************)
MaxCartLen == 3
MaxCheckoutCartLen == 2
MaxNewProducts == 1
MaxOrders == 1
MaxCatalog == 6

(***************************************************************************)
(* Python's None, for the string-valued fields.                            *)
(***************************************************************************)
None == "<None>"

(***************************************************************************)
(* setup_database's seed rows: name, category, price (cents), desc.        *)
(***************************************************************************)
seed_data == <<
    [name |-> "Mechanical Keycaps (Python Ed.)", category |-> "Hardware", price |-> 4999,
     desc |-> "Custom PBT keycaps in blue and yellow colors."],
    [name |-> "Ultrawide Monitor Stand", category |-> "Hardware", price |-> 12000,
     desc |-> "Aluminum stand for your dual-monitor coding setup."],
    [name |-> "Ergonomic Vertical Mouse", category |-> "Hardware", price |-> 3550,
     desc |-> "Save your wrist during long debugging sessions."],
    [name |-> "Flask Pro Template", category |-> "Software", price |-> 2900,
     desc |-> "Production-ready boilerplate with Auth, Admin, and Stripe."],
    [name |-> "API Access Key (Lifetime)", category |-> "Software", price |-> 9900,
     desc |-> "Unlimited requests to our machine learning backend."],
    [name |-> "Cloud Deployment Script", category |-> "Software", price |-> 1500,
     desc |-> "Automated bash scripts for AWS/DigitalOcean."],
    [name |-> "Developer Hoodie (Black)", category |-> "Merchandise", price |-> 5500,
     desc |-> "Heavyweight cotton. 'It works on my machine' print."],
    [name |-> "Vacuum Insulated Mug", category |-> "Merchandise", price |-> 2200,
     desc |-> "Keeps your coffee hot for 6 hours while you code."],
    [name |-> "Laptop Sticker Pack", category |-> "Merchandise", price |-> 800,
     desc |-> "High-quality vinyl stickers: Python, Docker, Linux."],
    [name |-> "Blue Light Glasses", category |-> "Accessories", price |-> 4500,
     desc |-> "Protect your eyes from screen fatigue."],
    [name |-> "Desk Mat (900x400)", category |-> "Accessories", price |-> 2500,
     desc |-> "Smooth surface with code cheat sheets printed on it."]
>>

(***************************************************************************)
(* Inputs of the requests.                                                 *)
(***************************************************************************)
\* product ids asked for in the cart routes: a seeded product and the id the
\* next created product will get (dangling until it is created)
CartIds == {1, Len(seed_data) + 1}
Usernames == {"alice", "bob"}
Passwords == {"pw"}
\* the price field of the admin form, as the characters typed
PriceInputs == {<<"1", ".", "5">>, <<"-", "5">>, <<"a", "b">>, <<>>}
\* the uploaded file's name ("" when no file is chosen)
FileInputs == {"", "my pic.png"}
CustomerNames == {"Ann", None}
Addresses == {"1 Main St", None}
Methods == {"GET", "POST"}
\* /shop?q=...&category=... ("" when the parameter is empty or left out)
ShopQueries == {"", "code", "Stand", "_"}
ShopCategories == {"", "Merchandise", "Hardware"}

(***************************************************************************)
(* Models (the rows of the three tables); a row's id is its position.      *)
(***************************************************************************)
generate_password_hash(password) == <<"hash", password>>

check_password_hash(pwhash, password) == pwhash = generate_password_hash(password)

User(id, username, password_hash, is_admin) ==
    [id |-> id, username |-> username, password_hash |-> password_hash, is_admin |-> is_admin]

check_password(user, password) == check_password_hash(user.password_hash, password)

Product(id, name, price, image, description, category) ==
    [id |-> id, name |-> name, price |-> price, image |-> image,
     description |-> description, category |-> category]

Order(id, customer_name, address, total_price) ==
    [id |-> id, customer_name |-> customer_name, address |-> address,
     total_price |-> total_price, status |-> "Pending"]

\* nullable=False columns: the INSERT fails when one of them is NULL;
\* unique=True on username: it fails when another row has the username
UserInsertable(u) ==
    /\ u.username # None
    /\ \A i \in 1..Len(users) : users[i].username # u.username
ProductInsertable(p) == p.name # None
OrderInsertable(o) == o.customer_name # None /\ o.address # None

(***************************************************************************)
(* Product.query.get(i): <<>> for None, <<row>> for a row.                 *)
(***************************************************************************)
Product_query_get(i) ==
    IF i \in 1..Len(products) THEN <<products[i]>> ELSE <<>>

\* faulty variant: the lookup finds nobody
User_query_filter_by_none(username) == {}

User_query_filter_by(username) ==
    {i \in 1..Len(users) : users[i].username = username}

(***************************************************************************)
(* The session: a dict whose keys are among "cart" and "_user_id".         *)
(***************************************************************************)
SessionSet(s, k, v) == [x \in (DOMAIN s) \cup {k} |-> IF x = k THEN v ELSE s[x]]

\* faulty variant: the key is not removed
SessionPop_kept(s, k) == s

SessionPop(s, k) == [x \in (DOMAIN s) \ {k} |-> s[x]]

session_get_cart(s) == IF "cart" \in DOMAIN s THEN s["cart"] ELSE <<>>

load_user(s) ==
    IF "_user_id" \in DOMAIN s /\ s["_user_id"] \in 1..Len(users)
    THEN <<users[s["_user_id"]]>> ELSE <<>>

is_authenticated(s) == load_user(s) # <<>>

\* faulty variant: the badge counts distinct products
inject_cart_count_distinct(s) ==
    Cardinality({session_get_cart(s)[k] : k \in 1..Len(session_get_cart(s))})

inject_cart_count(s) == Len(session_get_cart(s))

(***************************************************************************)
(* float(p_price) on the characters of the form field: an optional sign,   *)
(* digits with at most one point and at least one digit; anything else     *)
(* raises ValueError.  The value is in cents (two decimals are kept).      *)
(***************************************************************************)
Digits == <<"0", "1", "2", "3", "4", "5", "6", "7", "8", "9">>

IsDigit(c) == \E d \in 1..Len(Digits) : Digits[d] = c

DigitVal(c) == (CHOOSE d \in 1..Len(Digits) : Digits[d] = c) - 1

RECURSIVE IntVal(_)
IntVal(s) == IF s = <<>> THEN 0
             ELSE 10 * IntVal(SubSeq(s, 1, Len(s) - 1)) + DigitVal(s[Len(s)])

PointAt(s) == IF \E i \in 1..Len(s) : s[i] = "."
              THEN CHOOSE i \in 1..Len(s) : s[i] = "." /\ \A j \in 1..(i - 1) : s[j] # "."
              ELSE Len(s) + 1

float_unsigned(s) ==
    LET p == PointAt(s)
        whole == SubSeq(s, 1, p - 1)
        frac == SubSeq(s, p + 1, Len(s))
        frac2 == SubSeq(frac \o <<"0", "0">>, 1, 2)
        wellformed == /\ \A i \in 1..Len(whole) : IsDigit(whole[i])
                      /\ \A i \in 1..Len(frac) : IsDigit(frac[i])
                      /\ Len(whole) + Len(frac) > 0
    IN  IF wellformed
        THEN [ok |-> TRUE, value |-> 100 * IntVal(whole) + IntVal(frac2)]
        ELSE [ok |-> FALSE, value |-> 0]

float(s) ==
    IF s # <<>> /\ s[1] = "-"
    THEN LET r == float_unsigned(Tail(s)) IN [ok |-> r.ok, value |-> 0 - r.value]
    ELSE IF s # <<>> /\ s[1] = "+"
    THEN float_unsigned(Tail(s))
    ELSE float_unsigned(s)

(***************************************************************************)
(* secure_filename on the uploaded names of FileInputs: spaces become      *)
(* underscores.                                                            *)
(***************************************************************************)
secure_filename(filename) ==
    CASE filename = "my pic.png" -> "my_pic.png"
      [] OTHER -> filename

(***************************************************************************)
(* view_cart's loop: for each id of the cart in order, the row is appended *)
(* to cart_items and its price added to total_price when the id resolves.  *)
(***************************************************************************)
\* faulty variant: the price is assigned to the total, not added to it
RECURSIVE view_cart_loop_assign(_, _, _)
view_cart_loop_assign(cart_ids, cart_items, total_price) ==
    IF cart_ids = <<>>
    THEN [cart_items |-> cart_items, total |-> total_price]
    ELSE LET item == Product_query_get(Head(cart_ids)) IN
         IF item # <<>>
         THEN view_cart_loop_assign(Tail(cart_ids), Append(cart_items, item[1]),
                                    item[1].price)
         ELSE view_cart_loop_assign(Tail(cart_ids), cart_items, total_price)

RECURSIVE view_cart_loop(_, _, _)
view_cart_loop(cart_ids, cart_items, total_price) ==
    IF cart_ids = <<>>
    THEN [cart_items |-> cart_items, total |-> total_price]
    ELSE LET item == Product_query_get(Head(cart_ids)) IN
         IF item # <<>>
         THEN view_cart_loop(Tail(cart_ids), Append(cart_items, item[1]),
                             total_price + item[1].price)
         ELSE view_cart_loop(Tail(cart_ids), cart_items, total_price)

(***************************************************************************)
(* checkout's total: sum([get(i).price for i in cart_ids if get(i)]).      *)
(***************************************************************************)
RECURSIVE checkout_prices(_)
checkout_prices(cart_ids) ==
    IF cart_ids = <<>> THEN <<>>
    ELSE IF Product_query_get(Head(cart_ids)) # <<>>
    THEN <<Product_query_get(Head(cart_ids))[1].price>> \o checkout_prices(Tail(cart_ids))
    ELSE checkout_prices(Tail(cart_ids))

RECURSIVE sum(_)
sum(list) == IF list = <<>> THEN 0 ELSE Head(list) + sum(Tail(list))

RECURSIVE distinct_ids(_)
distinct_ids(cart_ids) ==
    IF cart_ids = <<>> THEN <<>>
    ELSE LET rest == distinct_ids(SubSeq(cart_ids, 1, Len(cart_ids) - 1))
             x == cart_ids[Len(cart_ids)]
         IN  IF \E k \in 1..Len(rest) : rest[k] = x THEN rest ELSE Append(rest, x)

\* faulty variant: each product is priced once, whatever its quantity
checkout_total_once(cart_ids) == sum(checkout_prices(distinct_ids(cart_ids)))

checkout_total(cart_ids) == sum(checkout_prices(cart_ids))

(***************************************************************************)
(* list.remove(x): the list without the first occurrence of x.             *)
(***************************************************************************)
\* faulty variant: the last occurrence is removed
list_remove_last(cart_list, x) ==
    LET k == CHOOSE i \in 1..Len(cart_list) :
                 cart_list[i] = x /\ \A j \in (i + 1)..Len(cart_list) : cart_list[j] # x
    IN  SubSeq(cart_list, 1, k - 1) \o SubSeq(cart_list, k + 1, Len(cart_list))

list_remove(cart_list, x) ==
    LET k == CHOOSE i \in 1..Len(cart_list) :
                 cart_list[i] = x /\ \A j \in 1..(i - 1) : cart_list[j] # x
    IN  SubSeq(cart_list, 1, k - 1) \o SubSeq(cart_list, k + 1, Len(cart_list))

list_contains(cart_list, x) == \E i \in 1..Len(cart_list) : cart_list[i] = x

(***************************************************************************)
(* The request handled last and what it returned.                          *)
(***************************************************************************)
NoForm == [username |-> None, password |-> None, name |-> None, address |-> None,
           product_price |-> <<>>, product_image |-> "", q |-> "", category |-> ""]

Request(endpoint, method, product_id, form) ==
    [endpoint |-> endpoint, method |-> method, product_id |-> product_id, form |-> form]

\* a rendered template (200): the context processor adds cart_count
render_template(page, flash, cart_items, total, s) ==
    [status |-> 200, page |-> page, flash |-> flash, cart_items |-> cart_items,
     total |-> total, cart_count |-> inject_cart_count(s), products |-> <<>>]

\* the pages that list products (products=..., featured_products=...)
render_products(page, listed, s) ==
    [render_template(page, "", <<>>, 0, s) EXCEPT !.products = listed]

redirect(to, flash) ==
    [status |-> 302, page |-> to, flash |-> flash, cart_items |-> <<>>,
     total |-> 0, cart_count |-> 0, products |-> <<>>]

\* an exception no handler catches: Flask answers 500
InternalServerError ==
    [status |-> 500, page |-> "", flash |-> "", cart_items |-> <<>>,
     total |-> 0, cart_count |-> 0, products |-> <<>>]

(***************************************************************************)
(* setup_database: seeds the Product table when it is empty.               *)
(***************************************************************************)
setup_database(table) ==
    IF table = <<>>
    THEN [i \in 1..Len(seed_data) |->
             Product(i, seed_data[i].name, seed_data[i].price, None,
                     seed_data[i].desc, seed_data[i].category)]
    ELSE table

(***************************************************************************)
(* Requests in flight.  The development server handles each request in a   *)
(* thread of its own (app.run, threaded), and every query of a handler is  *)
(* a statement of its own against shop.db: what one request commits is     *)
(* seen by the next statement of another.  inflight[t] is the request      *)
(* thread t is handling: where it stands (pc), its form fields, the        *)
(* session it read from its cookie (sess) and the handler's locals.        *)
(* catalog0 records the size of the Product table when the request came in *)
(* and status what it answered.                                            *)
(***************************************************************************)
Threads == {1, 2}

ThreadIdle ==
    [pc |-> "idle", method |-> "GET", username |-> None, password |-> None,
     is_admin |-> FALSE, name |-> None, address |-> None, sess |-> <<>>,
     cart_ids |-> <<>>, todo |-> <<>>, prices |-> <<>>, identity_map |-> {},
     catalog0 |-> 0, status |-> 0]

\* shownTotal: what the checkout page displayed last (<<>> before any), with
\* the cart and the size of the Product table it was computed from
Init ==
    /\ users = <<>>
    /\ products = setup_database(<<>>)
    /\ orders = <<>>
    /\ images = {}
    /\ session = <<>>
    /\ request = Request("", "GET", 0, NoForm)
    /\ response = redirect("", "")
    /\ shownTotal = <<>>
    /\ inflight = [t \in Threads |-> ThreadIdle]

User_query_count == Len(users)

\* faulty variant: every new user is taken for the first
is_first_user_always == TRUE

\* "User.query.count() == 0"
is_first_user == User_query_count = 0

\* @login_required refusing an anonymous visitor: redirect to login_view
unauthorized == redirect("login", "Please log in to access this page.")

(***************************************************************************)
(* /register                                                               *)
(***************************************************************************)
register(method, username, password, commit_ok) ==
    /\ UNCHANGED <<products, orders, images, shownTotal>>
    /\ IF method = "POST"
       THEN /\ request' = Request("register", method, 0,
                                  [NoForm EXCEPT !.username = username, !.password = password])
            /\ IF User_query_filter_by(username) # {}
               THEN /\ response' = redirect("register", "User already exists!")
                    /\ UNCHANGED <<users, session>>
               ELSE LET new_user == User(Len(users) + 1, username,
                                         generate_password_hash(password),
                                         is_first_user)
                    IN  IF UserInsertable(new_user) /\ commit_ok
                        THEN /\ users' = Append(users, new_user)
                             /\ session' = SessionSet(session, "_user_id", new_user.id)
                             /\ response' = redirect("home", "Account created successfully!")
                        ELSE /\ response' = InternalServerError
                             /\ UNCHANGED <<users, session>>
       ELSE /\ request' = Request("register", method, 0, NoForm)
            /\ response' = render_template("register.html", "", <<>>, 0, session)
            /\ UNCHANGED <<users, session>>

(***************************************************************************)
(* /login                                                                  *)
(***************************************************************************)
login(method, username, password) ==
    /\ UNCHANGED <<users, products, orders, images, shownTotal>>
    /\ IF method = "POST"
       THEN /\ request' = Request("login", method, 0,
                                  [NoForm EXCEPT !.username = username, !.password = password])
            /\ LET found == User_query_filter_by(username) IN
               IF found # {} /\ check_password(users[CHOOSE i \in found : TRUE], password)
               THEN /\ session' = SessionSet(session, "_user_id", CHOOSE i \in found : TRUE)
                    /\ response' = redirect("home", "")
               ELSE /\ response' = render_template("login.html",
                                        "Invalid username or password", <<>>, 0, session)
                    /\ UNCHANGED session
       ELSE /\ request' = Request("login", method, 0, NoForm)
            /\ response' = render_template("login.html", "", <<>>, 0, session)
            /\ UNCHANGED session

(***************************************************************************)
(* /logout                                                                 *)
(***************************************************************************)
logout ==
    /\ UNCHANGED <<users, products, orders, images, shownTotal>>
    /\ request' = Request("logout", "GET", 0, NoForm)
    /\ IF ~is_authenticated(session)
       THEN /\ response' = unauthorized
            /\ UNCHANGED session
       ELSE /\ session' = SessionPop(session, "_user_id")
            /\ response' = redirect("home", "You have been logged out.")

(***************************************************************************)
(* column.contains(q): column LIKE '%' || q || '%' as SQLite evaluates it. *)
(* In the pattern % stands for any run of characters and _ for any one     *)
(* character (contains() does not escape them), and ASCII letters match    *)
(* without regard to case.                                                 *)
(***************************************************************************)
UpperCase == "ABCDEFGHIJKLMNOPQRSTUVWXYZ"

LowerCase == "abcdefghijklmnopqrstuvwxyz"

char(str, i) == SubSeq(str, i, i)

lower(c) == IF \E i \in 1..Len(UpperCase) : char(UpperCase, i) = c
            THEN char(LowerCase, CHOOSE i \in 1..Len(UpperCase) : char(UpperCase, i) = c)
            ELSE c

RECURSIVE like(_, _)
like(text, pattern) ==
    IF Len(pattern) = 0 THEN Len(text) = 0
    ELSE IF char(pattern, 1) = "%"
    THEN \E k \in 0..Len(text) :
            like(SubSeq(text, k + 1, Len(text)), SubSeq(pattern, 2, Len(pattern)))
    ELSE /\ Len(text) > 0
         /\ char(pattern, 1) = "_" \/ lower(char(pattern, 1)) = lower(char(text, 1))
         /\ like(SubSeq(text, 2, Len(text)), SubSeq(pattern, 2, Len(pattern)))

contains(column, other) == like(column, "%" \o other \o "%")

(***************************************************************************)
(* /  : Product.query.order_by(db.func.random()).limit(3).all()            *)
(***************************************************************************)
\* faulty variant: each position is drawn independently, so rows may repeat
order_by_random_repeat(table) ==
    {[i \in 1..Len(table) |-> table[f[i]]] : f \in [1..Len(table) -> 1..Len(table)]}

\* the rows of the table in any order
order_by_random(table) ==
    {[i \in 1..Len(table) |-> table[f[i]]] : f \in Permutations(1..Len(table))}

limit(rows, n) == SubSeq(rows, 1, IF Len(rows) < n THEN Len(rows) ELSE n)

home ==
    /\ UNCHANGED <<users, products, orders, images, session, shownTotal>>
    /\ request' = Request("home", "GET", 0, NoForm)
    /\ \E rows \in order_by_random(products) :
          response' = render_products("index.html", limit(rows, 3), session)

(***************************************************************************)
(* /shop                                                                   *)
(***************************************************************************)
shop_page(search_query, category_filter) ==
    /\ UNCHANGED <<users, products, orders, images, session, shownTotal>>
    /\ request' = Request("shop_page", "GET", 0,
                          [NoForm EXCEPT !.q = search_query, !.category = category_filter])
    /\ LET searched(row) == \/ search_query = ""
                            \/ contains(row.name, search_query)
                            \/ contains(row.description, search_query)
           filtered(row) == category_filter = "" \/ row.category = category_filter
           kept(row) == searched(row) /\ filtered(row)
       IN  response' = render_products("products.html", SelectSeq(products, kept), session)

(***************************************************************************)
(* /add_to_cart/<product_id>                                               *)
(***************************************************************************)
add_to_cart(product_id) ==
    /\ UNCHANGED <<users, products, orders, images, shownTotal>>
    /\ request' = Request("add_to_cart", "GET", product_id, NoForm)
    /\ LET cart_list == IF "cart" \in DOMAIN session THEN session["cart"] ELSE <<>>
       IN  session' = SessionSet(session, "cart", Append(cart_list, product_id))
    /\ response' = redirect("shop_page", "Item added to cart!")

(***************************************************************************)
(* /cart                                                                   *)
(***************************************************************************)
view_cart ==
    /\ UNCHANGED <<users, products, orders, images, session, shownTotal>>
    /\ request' = Request("view_cart", "GET", 0, NoForm)
    /\ LET cart_ids == session_get_cart(session)
           r == view_cart_loop(cart_ids, <<>>, 0)
       IN  response' = render_template("cart.html", "", r.cart_items, r.total, session)

(***************************************************************************)
(* /remove_from_cart/<product_id>                                          *)
(***************************************************************************)
remove_from_cart(product_id) ==
    /\ UNCHANGED <<users, products, orders, images, shownTotal>>
    /\ request' = Request("remove_from_cart", "GET", product_id, NoForm)
    /\ IF "cart" \in DOMAIN session /\ list_contains(session["cart"], product_id)
       THEN /\ session' = SessionSet(session, "cart", list_remove(session["cart"], product_id))
            /\ response' = redirect("view_cart", "Item removed.")
       ELSE /\ response' = redirect("view_cart", "")
            /\ UNCHANGED session

\* faulty variant: the empty-cart guard never fires
not_never(cart_ids) == FALSE

\* faulty variant: a cart in which no id resolves counts as empty
not_resolving(cart_ids) == checkout_prices(cart_ids) = <<>>

\* "not cart_ids": an empty list is falsy
not(cart_ids) == cart_ids = <<>>

\* faulty variant: the cart is cleared before the commit, whatever its outcome
checkout_clear_first(method, name, address, commit_ok) ==
    /\ UNCHANGED <<users, products, images>>
    /\ LET cart_ids == session_get_cart(session) IN
       IF not(cart_ids)
       THEN /\ request' = Request("checkout", method, 0, NoForm)
            /\ response' = redirect("shop_page", "Your cart is empty.")
            /\ UNCHANGED <<orders, session, shownTotal>>
       ELSE LET total_price == checkout_total(cart_ids) IN
            IF method = "POST"
            THEN LET new_order == Order(Len(orders) + 1, name, address, total_price) IN
                 /\ request' = Request("checkout", method, 0,
                                       [NoForm EXCEPT !.name = name, !.address = address])
                 /\ session' = SessionPop(session, "cart")
                 /\ UNCHANGED shownTotal
                 /\ IF OrderInsertable(new_order) /\ commit_ok
                    THEN /\ orders' = Append(orders, new_order)
                         /\ response' = render_template("success.html", "", <<>>, 0, session')
                    ELSE /\ response' = InternalServerError
                         /\ UNCHANGED orders
            ELSE /\ request' = Request("checkout", method, 0, NoForm)
                 /\ response' = render_template("checkout.html", "", <<>>, total_price, session)
                 /\ shownTotal' = <<[total |-> total_price, cart |-> cart_ids,
                                     catalog |-> Len(products)]>>
                 /\ UNCHANGED <<orders, session>>

(***************************************************************************)
(* /checkout                                                               *)
(***************************************************************************)
checkout(method, name, address, commit_ok) ==
    /\ UNCHANGED <<users, products, images>>
    /\ LET cart_ids == session_get_cart(session) IN
       IF not(cart_ids)
       THEN /\ request' = Request("checkout", method, 0, NoForm)
            /\ response' = redirect("shop_page", "Your cart is empty.")
            /\ UNCHANGED <<orders, session, shownTotal>>
       ELSE LET total_price == checkout_total(cart_ids) IN
            IF method = "POST"
            THEN LET new_order == Order(Len(orders) + 1, name, address, total_price) IN
                 /\ request' = Request("checkout", method, 0,
                                       [NoForm EXCEPT !.name = name, !.address = address])
                 /\ IF OrderInsertable(new_order) /\ commit_ok
                    THEN /\ orders' = Append(orders, new_order)
                         /\ session' = SessionPop(session, "cart")
                         /\ response' = render_template("success.html", "", <<>>, 0, session')
                         /\ UNCHANGED shownTotal
                    ELSE /\ response' = InternalServerError
                         /\ UNCHANGED <<orders, session, shownTotal>>
            ELSE /\ request' = Request("checkout", method, 0, NoForm)
                 /\ response' = render_template("checkout.html", "", <<>>, total_price, session)
                 /\ shownTotal' = <<[total |-> total_price, cart |-> cart_ids,
                                     catalog |-> Len(products)]>>
                 /\ UNCHANGED <<orders, session>>

\* faulty variant: every logged-in user passes the check
current_user_is_admin_any(s) == TRUE

current_user_is_admin(s) == load_user(s)[1].is_admin

(***************************************************************************)
(* /admin                                                                  *)
(***************************************************************************)
\* faulty variant: the new row is written over the last row of the table
admin_panel_overwrite(method, p_price, file, commit_ok) ==
    /\ UNCHANGED <<users, orders, session, shownTotal>>
    /\ request' = IF method = "POST"
                  THEN Request("admin_panel", method, 0,
                               [NoForm EXCEPT !.product_price = p_price,
                                              !.product_image = file])
                  ELSE Request("admin_panel", method, 0, NoForm)
    /\ IF ~is_authenticated(session)
       THEN /\ response' = unauthorized
            /\ UNCHANGED <<products, images>>
       ELSE IF ~current_user_is_admin(session)
       THEN /\ response' = redirect("home", "Access Denied.")
            /\ UNCHANGED <<products, images>>
       ELSE IF method = "POST"
       THEN LET filename == IF file # "" THEN secure_filename(file) ELSE None
                 price == float(p_price)
                 new_product == Product(Len(products) + 1, "Widget", price.value,
                                        filename, "A widget", "Hardware")
            IN  /\ images' = IF file # "" THEN images \cup {filename} ELSE images
                /\ IF price.ok /\ ProductInsertable(new_product) /\ commit_ok
                   THEN /\ products' = [products EXCEPT ![Len(products)] = new_product]
                        /\ response' = render_template("admin.html", "Product Added!",
                                                       <<>>, 0, session)
                   ELSE /\ response' = InternalServerError
                        /\ UNCHANGED products
       ELSE /\ response' = render_template("admin.html", "", <<>>, 0, session)
            /\ UNCHANGED <<products, images>>

admin_panel(method, p_price, file, commit_ok) ==
    /\ UNCHANGED <<users, orders, session, shownTotal>>
    /\ request' = IF method = "POST"
                  THEN Request("admin_panel", method, 0,
                               [NoForm EXCEPT !.product_price = p_price,
                                              !.product_image = file])
                  ELSE Request("admin_panel", method, 0, NoForm)
    /\ IF ~is_authenticated(session)
       THEN /\ response' = unauthorized
            /\ UNCHANGED <<products, images>>
       ELSE IF ~current_user_is_admin(session)
       THEN /\ response' = redirect("home", "Access Denied.")
            /\ UNCHANGED <<products, images>>
       ELSE IF method = "POST"
       THEN LET filename == IF file # "" THEN secure_filename(file) ELSE None
                 price == float(p_price)
                 new_product == Product(Len(products) + 1, "Widget", price.value,
                                        filename, "A widget", "Hardware")
            IN  /\ images' = IF file # "" THEN images \cup {filename} ELSE images
                /\ IF price.ok /\ ProductInsertable(new_product) /\ commit_ok
                   THEN /\ products' = Append(products, new_product)
                        /\ response' = render_template("admin.html", "Product Added!",
                                                       <<>>, 0, session)
                   ELSE /\ response' = InternalServerError
                        /\ UNCHANGED products
       ELSE /\ response' = render_template("admin.html", "", <<>>, 0, session)
            /\ UNCHANGED <<products, images>>

(***************************************************************************)
(* /register POST, statement by statement.                                 *)
(***************************************************************************)
\* line 79: User.query.filter_by(username=username).first()
register_exists(t, username, password) ==
    /\ inflight[t].pc = "idle"
    /\ UNCHANGED <<users, products, orders, images, session, shownTotal>>
    /\ IF User_query_filter_by(username) # {}
       THEN /\ request' = Request("register", "POST", 0,
                                  [NoForm EXCEPT !.username = username, !.password = password])
            /\ response' = redirect("register", "User already exists!")
            /\ inflight' = [inflight EXCEPT ![t] =
                   [ThreadIdle EXCEPT !.pc = "done", !.method = "POST",
                                      !.username = username, !.password = password,
                                      !.sess = session, !.status = response'.status]]
       ELSE /\ inflight' = [inflight EXCEPT ![t] =
                   [ThreadIdle EXCEPT !.pc = "count", !.method = "POST",
                                      !.username = username, !.password = password,
                                      !.sess = session]]
            /\ UNCHANGED <<request, response>>

\* line 87: User.query.count() == 0
register_count(t) ==
    /\ inflight[t].pc = "count"
    /\ inflight' = [inflight EXCEPT ![t].pc = "commit", ![t].is_admin = is_first_user]
    /\ UNCHANGED <<users, products, orders, images, session, request, response, shownTotal>>

\* lines 90-94: add, commit, login_user, redirect
register_commit(t, commit_ok) ==
    LET th == inflight[t]
        new_user == User(Len(users) + 1, th.username,
                         generate_password_hash(th.password), th.is_admin)
    IN  /\ th.pc = "commit"
        /\ UNCHANGED <<products, orders, images, shownTotal>>
        /\ request' = Request("register", "POST", 0,
                              [NoForm EXCEPT !.username = th.username,
                                             !.password = th.password])
        /\ IF UserInsertable(new_user) /\ commit_ok
           THEN /\ users' = Append(users, new_user)
                /\ session' = SessionSet(th.sess, "_user_id", new_user.id)
                /\ response' = redirect("home", "Account created successfully!")
           ELSE /\ response' = InternalServerError
                /\ UNCHANGED <<users, session>>
        /\ inflight' = [inflight EXCEPT ![t].pc = "done", ![t].status = response'.status]

(***************************************************************************)
(* /checkout, statement by statement.                                      *)
(***************************************************************************)
\* lines 195-198: the cart of the session the request came with
checkout_begin(t, method, name, address) ==
    LET cart_ids == session_get_cart(session) IN
    /\ inflight[t].pc = "idle"
    /\ UNCHANGED <<users, products, orders, images, session, shownTotal>>
    /\ IF not(cart_ids)
       THEN /\ request' = Request("checkout", method, 0, NoForm)
            /\ response' = redirect("shop_page", "Your cart is empty.")
            /\ inflight' = [inflight EXCEPT ![t] =
                   [ThreadIdle EXCEPT !.pc = "done", !.method = method,
                                      !.sess = session, !.catalog0 = Len(products),
                                      !.status = response'.status]]
       ELSE /\ inflight' = [inflight EXCEPT ![t] =
                   [ThreadIdle EXCEPT !.pc = "lookups", !.method = method,
                                      !.name = name, !.address = address,
                                      !.sess = session, !.cart_ids = cart_ids,
                                      !.todo = cart_ids, !.catalog0 = Len(products)]]
            /\ UNCHANGED <<request, response>>

\* line 200, one element of the comprehension: Product.query.get(i) of the
\* condition is a SELECT unless the row is in the identity map of the
\* request's db.session (a row found stays there, a None does not); the
\* get(i) of .price then finds the row in the identity map
checkout_lookup(t) ==
    LET th == inflight[t]
        i == Head(th.todo)
        found == i \in th.identity_map \/ Product_query_get(i) # <<>>
    IN  /\ th.pc = "lookups"
        /\ th.todo # <<>>
        /\ inflight' = [inflight EXCEPT ![t] =
               [th EXCEPT !.todo = Tail(th.todo),
                          !.prices = IF found THEN Append(@, products[i].price) ELSE @,
                          !.identity_map = IF found THEN @ \cup {i} ELSE @]]
        /\ UNCHANGED <<users, products, orders, images, session, request, response,
                       shownTotal>>

\* faulty variant: a commit that raised is answered as a success
checkout_finish_uncommitted(t, commit_ok) ==
    LET th == inflight[t]
        total_price == sum(th.prices)
    IN  /\ th.pc = "lookups"
        /\ th.todo = <<>>
        /\ UNCHANGED <<users, products, images>>
        /\ IF th.method = "POST"
           THEN LET new_order == Order(Len(orders) + 1, th.name, th.address, total_price) IN
                /\ request' = Request("checkout", "POST", 0,
                                      [NoForm EXCEPT !.name = th.name, !.address = th.address])
                /\ orders' = IF OrderInsertable(new_order) /\ commit_ok
                             THEN Append(orders, new_order) ELSE orders
                /\ session' = SessionPop(th.sess, "cart")
                /\ response' = render_template("success.html", "", <<>>, 0, session')
                /\ UNCHANGED shownTotal
           ELSE /\ request' = Request("checkout", "GET", 0, NoForm)
                /\ response' = render_template("checkout.html", "", <<>>, total_price, th.sess)
                /\ shownTotal' = <<[total |-> total_price, cart |-> th.cart_ids,
                                    catalog |-> Len(products)]>>
                /\ UNCHANGED <<orders, session>>
        /\ inflight' = [inflight EXCEPT ![t].pc = "done", ![t].status = response'.status]

\* lines 200-218: sum(...), then the Order, the commit and session.pop of a
\* POST (the response carries the popped session as the new cookie), or the
\* checkout page of a GET
checkout_finish(t, commit_ok) ==
    LET th == inflight[t]
        total_price == sum(th.prices)
    IN  /\ th.pc = "lookups"
        /\ th.todo = <<>>
        /\ UNCHANGED <<users, products, images>>
        /\ IF th.method = "POST"
           THEN LET new_order == Order(Len(orders) + 1, th.name, th.address, total_price) IN
                /\ request' = Request("checkout", "POST", 0,
                                      [NoForm EXCEPT !.name = th.name, !.address = th.address])
                /\ IF OrderInsertable(new_order) /\ commit_ok
                   THEN /\ orders' = Append(orders, new_order)
                        /\ session' = SessionPop(th.sess, "cart")
                        /\ response' = render_template("success.html", "", <<>>, 0, session')
                        /\ UNCHANGED shownTotal
                   ELSE /\ response' = InternalServerError
                        /\ UNCHANGED <<orders, session, shownTotal>>
           ELSE /\ request' = Request("checkout", "GET", 0, NoForm)
                /\ response' = render_template("checkout.html", "", <<>>, total_price, th.sess)
                /\ shownTotal' = <<[total |-> total_price, cart |-> th.cart_ids,
                                    catalog |-> Len(products)]>>
                /\ UNCHANGED <<orders, session>>
        /\ inflight' = [inflight EXCEPT ![t].pc = "done", ![t].status = response'.status]

(***************************************************************************)
(* Guards that keep the tables and the cart within the bounds.             *)
(***************************************************************************)
CartBelow(n) == Len(session_get_cart(session)) < n

OrdersBelowBound == Len(orders) < MaxOrders

SomeCartIdDangles == \E i \in CartIds : i > Len(products)

ProductsBelowBound == Len(products) < Len(seed_data) + MaxNewProducts

(***************************************************************************)
(* SpecCart: one session's cart routes, over three ids (two seeded         *)
(* products and a dangling id).                                            *)
(***************************************************************************)
NextCart ==
    \/ \E i \in CartIds \cup {2} : CartBelow(MaxCartLen) /\ add_to_cart(i) /\ UNCHANGED inflight
    \/ \E i \in CartIds \cup {2} : remove_from_cart(i) /\ UNCHANGED inflight
    \/ view_cart /\ UNCHANGED inflight

SpecCart == Init /\ [][NextCart]_vars

(***************************************************************************)
(* SpecCheckout: the cart and checkout routes of one session, while an     *)
(* admin (the first registered user) may create the product the dangling   *)
(* id of CartIds refers to.                                                *)
(***************************************************************************)
NextCheckout ==
    \/ register("POST", "alice", "pw", TRUE) /\ UNCHANGED inflight
    \/ \E i \in CartIds : CartBelow(MaxCheckoutCartLen) /\ add_to_cart(i) /\ UNCHANGED inflight
    \/ \E i \in CartIds : remove_from_cart(i) /\ UNCHANGED inflight
    \/ view_cart /\ UNCHANGED inflight
    \/ \E m \in Methods, n \in CustomerNames, a \in Addresses, ok \in BOOLEAN :
          /\ m = "GET" => (n = None /\ a = None /\ ok)
          /\ OrdersBelowBound
          /\ checkout(m, n, a, ok)
          /\ UNCHANGED inflight
    \/ SomeCartIdDangles /\ admin_panel("POST", <<"1", ".", "5">>, "", TRUE)
          /\ UNCHANGED inflight

SpecCheckout == Init /\ [][NextCheckout]_vars

(***************************************************************************)
(* SpecShop: the catalog listing, while an admin creates products.         *)
(***************************************************************************)
NextShop ==
    \/ register("POST", "alice", "pw", TRUE) /\ UNCHANGED inflight
    \/ \E pr \in PriceInputs, f \in FileInputs :
          ProductsBelowBound /\ admin_panel("POST", pr, f, TRUE) /\ UNCHANGED inflight
    \/ \E q \in ShopQueries, c \in ShopCategories : shop_page(q, c) /\ UNCHANGED inflight

SpecShop == Init /\ [][NextShop]_vars

(***************************************************************************)
(* SpecHome: the home page over Product tables of 0 to MaxCatalog rows     *)
(* (shop.db outlives a run, and setup_database seeds only an empty table,  *)
(* and only when the module is run as the main program).                   *)
(***************************************************************************)
InitHome ==
    /\ users = <<>>
    /\ products \in {SubSeq(setup_database(<<>>), 1, n) : n \in 0..MaxCatalog}
    /\ orders = <<>>
    /\ images = {}
    /\ session = <<>>
    /\ request = Request("", "GET", 0, NoForm)
    /\ response = redirect("", "")
    /\ shownTotal = <<>>
    /\ inflight = [t \in Threads |-> ThreadIdle]

NextHome == home /\ UNCHANGED inflight

SpecHome == InitHome /\ [][NextHome]_vars

(***************************************************************************)
(* Spec: every handler.  Registration, login, logout and the admin panel   *)
(* take all their inputs; the cart holds at most one entry, a seeded       *)
(* product, and is checked out by a named customer.                        *)
(***************************************************************************)
Next ==
    \/ \E m \in Methods, u \in Usernames \cup {None}, p \in Passwords, ok \in BOOLEAN :
          /\ m = "GET" => (u = None /\ ok)
          /\ register(m, u, p, ok)
          /\ UNCHANGED inflight
    \/ \E m \in Methods, u \in Usernames, p \in Passwords \cup {"wrong"} :
          /\ m = "GET" => (u = "alice" /\ p = "pw")
          /\ login(m, u, p)
          /\ UNCHANGED inflight
    \/ logout /\ UNCHANGED inflight
    \/ \E m \in Methods, pr \in PriceInputs, f \in FileInputs, ok \in BOOLEAN :
          /\ m = "GET" => (pr = <<>> /\ f = "" /\ ok)
          /\ ProductsBelowBound
          /\ admin_panel(m, pr, f, ok)
          /\ UNCHANGED inflight
    \/ CartBelow(1) /\ add_to_cart(1) /\ UNCHANGED inflight
    \/ remove_from_cart(1) /\ UNCHANGED inflight
    \/ view_cart /\ UNCHANGED inflight
    \/ \E m \in Methods : OrdersBelowBound /\ checkout(m, "Ann", "1 Main St", TRUE) /\ UNCHANGED inflight

Spec == Init /\ [][Next]_vars

(***************************************************************************)
(* SpecConcurrentRegister: two registration POSTs handled at once.         *)
(***************************************************************************)
NextConcurrentRegister ==
    \/ \E t \in Threads, u \in Usernames, p \in Passwords : register_exists(t, u, p)
    \/ \E t \in Threads : register_count(t)
    \/ \E t \in Threads, ok \in BOOLEAN : register_commit(t, ok)

SpecConcurrentRegister == Init /\ [][NextConcurrentRegister]_vars

(***************************************************************************)
(* SpecConcurrentCheckout: one visitor fills the cart, then sends two      *)
(* checkout requests that are handled at once, while an admin (the first   *)
(* registered user) may create the product the dangling id of CartIds      *)
(* refers to.                                                              *)
(***************************************************************************)
NoRequestSent == \A t \in Threads : inflight[t].pc = "idle"

NextConcurrentCheckout ==
    \/ register("POST", "alice", "pw", TRUE) /\ NoRequestSent /\ UNCHANGED inflight
    \/ \E i \in CartIds :
          /\ NoRequestSent
          /\ CartBelow(MaxCheckoutCartLen)
          /\ add_to_cart(i)
          /\ UNCHANGED inflight
    \/ SomeCartIdDangles /\ admin_panel("POST", <<"1", ".", "5">>, "", TRUE)
          /\ UNCHANGED inflight
    \/ \E t \in Threads, m \in Methods : checkout_begin(t, m, "Ann", "1 Main St")
    \/ \E t \in Threads : checkout_lookup(t)
    \/ \E t \in Threads, ok \in BOOLEAN : checkout_finish(t, ok)

SpecConcurrentCheckout == Init /\ [][NextConcurrentCheckout]_vars

(***************************************************************************)
(* Vocabulary of the properties.                                           *)
(***************************************************************************)
cart == session_get_cart(session)

Count(seq, x) == Cardinality({k \in 1..Len(seq) : seq[k] = x})

Resolving(seq, table) == {seq[k] : k \in 1..Len(seq)} \cap (1..Len(table))

RECURSIVE LineTotals(_, _, _)
LineTotals(ids, seq, table) ==
    IF ids = {} THEN 0
    ELSE LET i == CHOOSE x \in ids : TRUE
         IN  Count(seq, i) * table[i].price + LineTotals(ids \ {i}, seq, table)

\* quantity times current price, summed over the products the cart refers to
CatalogTotal(seq, table) == LineTotals(Resolving(seq, table), seq, table)

OneOrderAdded == /\ Len(orders') = Len(orders) + 1
                 /\ \A k \in 1..Len(orders) : orders'[k] = orders[k]

NewOrder == orders'[Len(orders')]

CheckoutPostSucceeds ==
    request'.endpoint = "checkout" /\ request'.method = "POST" /\ response'.status = 200

(***************************************************************************)
(* C1 as stated: after a successful checkout POST the cart is empty,       *)
(* exactly one Order was added, and its total_price is the total the       *)
(* preceding checkout GET displayed, whatever requests came in between.    *)
(***************************************************************************)
C1_TotalIsTheOneShown ==
    [][CheckoutPostSucceeds =>
          /\ session_get_cart(session') = <<>>
          /\ OneOrderAdded
          /\ shownTotal # <<>> => NewOrder.total_price = shownTotal[1].total]_vars

(***************************************************************************)
(* C1 as amended: after a successful checkout POST the cart is empty and   *)
(* exactly one Order was added; its total_price is the total recomputed    *)
(* from the cart and the catalog as they are at the POST, which is the     *)
(* total the preceding checkout GET displayed whenever the cart sequence   *)
(* and the Product table are the same at the POST as they were at that GET.*)
(***************************************************************************)
C1_TotalIsRecomputed ==
    [][CheckoutPostSucceeds =>
          /\ session_get_cart(session') = <<>>
          /\ OneOrderAdded
          /\ NewOrder.total_price = CatalogTotal(cart, products)
          /\ (/\ shownTotal # <<>>
              /\ shownTotal[1].cart = cart
              /\ shownTotal[1].catalog = Len(products))
             => NewOrder.total_price = shownTotal[1].total]_vars

\* a checkout POST succeeded on the cart and catalog the checkout page was
\* computed from, and stored the total that page displayed
C1_Witness ==
    /\ request.endpoint = "checkout" /\ request.method = "POST"
    /\ response.status = 200
    /\ cart = <<>>
    /\ shownTotal # <<>>
    /\ shownTotal[1].catalog = Len(products)
    /\ Len(shownTotal[1].cart) = MaxCheckoutCartLen
    /\ orders # <<>>
    /\ orders[Len(orders)].total_price = shownTotal[1].total
    /\ orders[Len(orders)].total_price > 0

(***************************************************************************)
(* C2: the total checkout computes is the sum, over the cart entries with  *)
(* duplicates counted, of the current catalog price of each id that        *)
(* resolves; ids that do not resolve add nothing and are not among the     *)
(* line items of the cart view.                                            *)
(***************************************************************************)
C2_TotalIsCatalogSum ==
    /\ [](response.page = "checkout.html" => response.total = CatalogTotal(cart, products))
    /\ [][CheckoutPostSucceeds => NewOrder.total_price = CatalogTotal(cart, products)]_vars
    /\ [](response.page = "cart.html" =>
             /\ \A k \in 1..Len(response.cart_items) :
                   response.cart_items[k].id \in Resolving(cart, products)
             /\ \A i \in Resolving(cart, products) :
                   Count([k \in 1..Len(response.cart_items) |-> response.cart_items[k].id], i)
                       = Count(cart, i)
             /\ Len(response.cart_items)
                   = Cardinality({k \in 1..Len(cart) : cart[k] \in 1..Len(products)}))

\* the checkout page priced a cart holding a product and an id that does not
\* resolve
C2_Witness ==
    /\ response.page = "checkout.html"
    /\ response.total > 0
    /\ \E k \in 1..Len(cart) : cart[k] \notin 1..Len(products)

(***************************************************************************)
(* C3: a checkout request, GET or POST, on an empty or absent cart creates *)
(* no Order and leaves the session, the Product table and the Order table  *)
(* as they were.                                                           *)
(***************************************************************************)
C3_EmptyCartCheckoutChangesNothing ==
    [][(request'.endpoint = "checkout" /\ cart = <<>>) =>
          /\ orders' = orders
          /\ session' = session
          /\ products' = products
          /\ response' = redirect("shop_page", "Your cart is empty.")]_vars

\* a checkout was refused for an empty cart that is present in the session
C3_Witness ==
    /\ request.endpoint = "checkout"
    /\ response.flash = "Your cart is empty."
    /\ "cart" \in DOMAIN session
    /\ session["cart"] = <<>>

(***************************************************************************)
(* C4: in a checkout POST whose commit raises, the cart is not cleared and *)
(* no Order is stored; the cart is cleared by checkout only in a request   *)
(* that has committed its Order.                                           *)
(***************************************************************************)
C4_CartClearedOnlyAfterCommit ==
    [][request'.endpoint = "checkout" =>
          /\ (request'.method = "POST" /\ response'.status = 500)
                => (session' = session /\ orders' = orders)
          /\ session' # session => (OneOrderAdded /\ "cart" \notin DOMAIN session')]_vars

\* a checkout POST with name and address failed at the commit, and the cart
\* still holds its entries
C4_Witness ==
    /\ request.endpoint = "checkout" /\ request.method = "POST"
    /\ request.form.name # None /\ request.form.address # None
    /\ response.status = 500
    /\ Len(cart) = MaxCheckoutCartLen

(***************************************************************************)
(* C5: the cart count a page shows is the number of entries of the cart    *)
(* (each occurrence of an id counted), and remove_from_cart(x) with x not  *)
(* in the cart, or with no cart, leaves the session as it was.             *)
(***************************************************************************)
RECURSIVE Entries(_, _)
Entries(ids, seq) ==
    IF ids = {} THEN 0
    ELSE LET i == CHOOSE x \in ids : TRUE IN Count(seq, i) + Entries(ids \ {i}, seq)

C5_CountIsNumberOfEntries ==
    /\ [](response.status = 200 =>
             response.cart_count = Entries({cart[k] : k \in 1..Len(cart)}, cart))
    /\ [][(request'.endpoint = "remove_from_cart" /\ Count(cart, request'.product_id) = 0)
             => session' = session]_vars

\* the cart page showed the count of a full cart that holds an id twice
C5_Witness ==
    /\ request.endpoint = "view_cart"
    /\ response.cart_count = MaxCartLen
    /\ Cardinality({cart[k] : k \in 1..Len(cart)}) < Len(cart)

(***************************************************************************)
(* C6: remove_from_cart(x) on a cart containing x removes the first        *)
(* occurrence of x and nothing else: the cart is one shorter, the entries  *)
(* before that occurrence and the entries after it keep their order, so    *)
(* every later occurrence of x stays.                                      *)
(***************************************************************************)
C6_RemovesFirstOccurrence ==
    [][(request'.endpoint = "remove_from_cart" /\ Count(cart, request'.product_id) > 0) =>
          LET x == request'.product_id
              after == session_get_cart(session')
          IN  /\ "cart" \in DOMAIN session'
              /\ Len(after) = Len(cart) - 1
              /\ Count(after, x) = Count(cart, x) - 1
              /\ \E k \in 1..Len(cart) :
                    /\ cart[k] = x
                    /\ \A j \in 1..(k - 1) : cart[j] # x /\ after[j] = cart[j]
                    /\ \A j \in k..Len(after) : after[j] = cart[j + 1]]_vars

\* an id was removed from a cart that still holds a later occurrence of it
\* behind another id
C6_Witness ==
    /\ request.endpoint = "remove_from_cart"
    /\ response.flash = "Item removed."
    /\ Len(cart) = 2
    /\ cart[1] # request.product_id
    /\ cart[2] = request.product_id

(***************************************************************************)
(* C7: once a User exists, the first User registered is admin and no User  *)
(* registered later is: exactly one User is admin.                         *)
(***************************************************************************)
C7_OnlyFirstUserIsAdmin ==
    users # <<>> =>
        /\ users[1].is_admin
        /\ \A i \in 2..Len(users) : ~users[i].is_admin
        /\ Cardinality({i \in 1..Len(users) : users[i].is_admin}) = 1

\* two Users have registered
C7_Witness == Len(users) = 2 /\ users[1].username # users[2].username

(***************************************************************************)
(* C8: a request to /admin by a logged-in User who is not admin, GET or    *)
(* POST, is answered by the denial redirect and creates no Product; the    *)
(* Product table changes only in a POST to /admin by an admin User.        *)
(***************************************************************************)
C8_OnlyAdminCreatesProducts ==
    [][/\ (/\ request'.endpoint = "admin_panel"
           /\ load_user(session) # <<>>
           /\ ~load_user(session)[1].is_admin)
          => (/\ response' = redirect("home", "Access Denied.")
              /\ products' = products
              /\ images' = images)
       /\ products' # products
          => (/\ request'.endpoint = "admin_panel"
              /\ request'.method = "POST"
              /\ load_user(session) # <<>>
              /\ load_user(session)[1].is_admin)]_vars

\* a User who is not admin posted a product form with a file and was denied
C8_Witness ==
    /\ request.endpoint = "admin_panel" /\ request.method = "POST"
    /\ float(request.form.product_price).ok
    /\ request.form.product_image # ""
    /\ load_user(session) # <<>>
    /\ ~load_user(session)[1].is_admin
    /\ response.flash = "Access Denied."

(***************************************************************************)
(* C9: an admin's product-creation POST whose price does not parse as a    *)
(* number is answered with a validation error, not with an unhandled       *)
(* exception, and changes nothing: no Product and no image is stored.      *)
(***************************************************************************)
C9_BadPriceIsReportedNotRaised ==
    [][(/\ request'.endpoint = "admin_panel" /\ request'.method = "POST"
        /\ load_user(session) # <<>>
        /\ load_user(session)[1].is_admin
        /\ ~float(request'.form.product_price).ok)
       => (/\ response'.status # 500
           /\ products' = products
           /\ images' = images)]_vars

(***************************************************************************)
(* C10: no stored Product has a negative price.                            *)
(***************************************************************************)
C10_NoNegativePrice == \A i \in 1..Len(products) : products[i].price >= 0

(***************************************************************************)
(* C11: a checkout POST on a non-empty cart with no customer name or no    *)
(* address is answered as a validation failure, not with an unhandled      *)
(* exception; it creates no Order and does not clear the cart.             *)
(***************************************************************************)
C11_MissingFieldIsNotACrash ==
    [][(/\ request'.endpoint = "checkout" /\ request'.method = "POST"
        /\ cart # <<>>
        /\ (request'.form.name = None \/ request'.form.address = None))
       => (/\ response'.status # 500
           /\ orders' = orders
           /\ session' = session)]_vars

(***************************************************************************)
(* C12: a registration POST with a username that a User already has is     *)
(* answered with the "already exists" redirect, adds no User and changes   *)
(* no User; no two Users ever share a username.                            *)
(***************************************************************************)
C12_DuplicateUsernameRejected ==
    /\ [][(/\ request'.endpoint = "register" /\ request'.method = "POST"
           /\ \E i \in 1..Len(users) : users[i].username = request'.form.username)
          => (/\ users' = users
              /\ response' = redirect("register", "User already exists!"))]_vars
    /\ [](\A i, j \in 1..Len(users) : users[i].username = users[j].username => i = j)
    /\ [][\A i \in 1..Len(users) : Len(users') >= i /\ users'[i] = users[i]]_vars

\* a registration was refused for a username that the admin, one of two
\* Users, already has
C12_Witness ==
    /\ request.endpoint = "register" /\ request.method = "POST"
    /\ response.flash = "User already exists!"
    /\ Len(users) = 2
    /\ users[1].username = request.form.username

(***************************************************************************)
(* C13: the shop listing returns exactly the Products whose name or        *)
(* description contains q (when q is given) and whose category equals c    *)
(* (when c is given): both filters together give the intersection, one     *)
(* filter alone gives its matches, and no filter gives the whole catalog.  *)
(* "Contains" is read without regard to the case of letters.               *)
(***************************************************************************)
RECURSIVE Fold(_)
Fold(str) == IF Len(str) = 0 THEN "" ELSE lower(char(str, 1)) \o Fold(SubSeq(str, 2, Len(str)))

HasSubstring(text, q) ==
    \E i \in 1..(Len(text) - Len(q) + 1) : Fold(SubSeq(text, i, i + Len(q) - 1)) = Fold(q)

Listed == {response.products[k].id : k \in 1..Len(response.products)}

C13_ListingIsIntersection ==
    (request.endpoint = "shop_page" /\ response.status = 200) =>
        LET q == request.form.q
            c == request.form.category
        IN  /\ Listed = {i \in 1..Len(products) :
                            /\ q # "" => \/ HasSubstring(products[i].name, q)
                                         \/ HasSubstring(products[i].description, q)
                            /\ c # "" => products[i].category = c}
            /\ Len(response.products) = Cardinality(Listed)

(***************************************************************************)
(* C14: the featured selection of the home page holds min(3, size of the   *)
(* catalog) Products of the catalog, no Product twice; a catalog of fewer  *)
(* than 3 Products is returned whole, without error.                       *)
(***************************************************************************)
C14_FeaturedAreDistinct ==
    request.endpoint = "home" =>
        /\ response.status = 200
        /\ Len(response.products) = IF Len(products) < 3 THEN Len(products) ELSE 3
        /\ \A k \in 1..Len(response.products) :
              /\ response.products[k].id \in 1..Len(products)
              /\ response.products[k] = products[response.products[k].id]
        /\ \A j, k \in 1..Len(response.products) :
              response.products[j].id = response.products[k].id => j = k
        /\ Len(products) < 3 => Listed = 1..Len(products)

\* the home page of a catalog of two Products featured both
C14_Witness ==
    /\ request.endpoint = "home"
    /\ Len(products) = 2
    /\ Listed = {1, 2}

(***************************************************************************)
(* C16: the cart and checkout routes never change the Product table; no    *)
(* request removes or modifies a Product: the table only grows, one row at *)
(* a time, by an admin's product creation.  The Order table changes only   *)
(* by a checkout POST that adds one Order.                                 *)
(***************************************************************************)
C16_TablesOnlyGrow ==
    [][/\ request'.endpoint \in {"add_to_cart", "view_cart", "remove_from_cart", "checkout"}
          => products' = products
       /\ Len(products') >= Len(products)
       /\ \A i \in 1..Len(products) : products'[i] = products[i]
       /\ products' # products
          => (request'.endpoint = "admin_panel" /\ Len(products') = Len(products) + 1)
       /\ orders' # orders
          => (/\ request'.endpoint = "checkout" /\ request'.method = "POST"
              /\ OneOrderAdded)]_vars

\* a Product was created and, after it, an Order
C16_Witness ==
    /\ request.endpoint = "checkout" /\ request.method = "POST"
    /\ Len(orders) = MaxOrders
    /\ Len(products) = Len(seed_data) + MaxNewProducts
    /\ \A i \in 1..Len(seed_data) : products[i].name = seed_data[i].name

(***************************************************************************)
(* C19: on the same cart and catalog the cart view and checkout show the   *)
(* same total, and the cart view has as many line items as there are cart  *)
(* entries that contribute a price to the checkout total.                  *)
(***************************************************************************)
C19_CartViewAgreesWithCheckout ==
    /\ response.page = "cart.html" =>
          /\ response.total = checkout_total(cart)
          /\ Len(response.cart_items) = Len(checkout_prices(cart))
    /\ response.page = "checkout.html" =>
          /\ response.total = view_cart_loop(cart, <<>>, 0).total
          /\ Len(checkout_prices(cart)) = Len(view_cart_loop(cart, <<>>, 0).cart_items)

\* the cart page priced a cart of two entries that resolve
C19_Witness ==
    /\ response.page = "cart.html"
    /\ Len(response.cart_items) = 2
    /\ response.total = response.cart_items[1].price + response.cart_items[2].price
    /\ response.total > 0

(***************************************************************************)
(* C20: the checkout guard looks at the number of cart entries only: a     *)
(* checkout POST on a non-empty cart in which no id resolves is not turned *)
(* away as an empty cart, and when it succeeds it has added one Order with *)
(* total_price 0 and cleared the cart; with name and address given it      *)
(* fails only when the commit raises.                                      *)
(***************************************************************************)
C20_UnresolvedCartIsCheckedOut ==
    [][(/\ request'.endpoint = "checkout" /\ request'.method = "POST"
        /\ cart # <<>>
        /\ Resolving(cart, products) = {})
       => /\ response'.status # 302
          /\ response'.status = 200 =>
                /\ OneOrderAdded
                /\ NewOrder.total_price = 0
                /\ "cart" \notin DOMAIN session'
          /\ response'.status = 500 => (orders' = orders /\ session' = session)]_vars

\* a cart whose entries did not resolve was checked out into an Order of 0
C20_Witness ==
    /\ request.endpoint = "checkout" /\ request.method = "POST"
    /\ response.page = "success.html"
    /\ orders[Len(orders)].total_price = 0
    /\ "cart" \notin DOMAIN session
    /\ shownTotal # <<>>
    /\ shownTotal[1].total = 0
    /\ \A k \in 1..Len(shownTotal[1].cart) : shownTotal[1].cart[k] > Len(products)

(***************************************************************************)
(* C17 as stated: at most one User has is_admin = true, also when two      *)
(* registrations with different usernames are handled at once and their    *)
(* statements (existence check, count check, commit) interleave on an      *)
(* empty User table.                                                       *)
(***************************************************************************)
Admins == {k \in 1..Len(users) : users[k].is_admin}

C17_AtMostOneAdmin == Cardinality(Admins) <= 1

(***************************************************************************)
(* C15 as stated: the total a checkout POST stores in the Order is the     *)
(* sum over the catalog as it was when the request came in or as it is     *)
(* when the Order is stored (before or after a product creation that ran   *)
(* during the lookups), never a mix of the two.                            *)
(***************************************************************************)
Finishes(t) == inflight[t].pc = "lookups" /\ inflight'[t].pc = "done"

C15_TotalOverOneCatalogView ==
    [][\A t \in Threads :
          (Finishes(t) /\ CheckoutPostSucceeds /\ OneOrderAdded)
          => NewOrder.total_price \in
                {CatalogTotal(inflight[t].cart_ids,
                              SubSeq(products, 1, inflight[t].catalog0)),
                 CatalogTotal(inflight[t].cart_ids, products)}]_vars

(***************************************************************************)
(* C18 as stated: one populated cart is converted into at most one Order,  *)
(* also when two checkout POSTs of the session both read the cart before   *)
(* either clears it.  (Under SpecConcurrentCheckout the cart is filled     *)
(* once, before the requests are sent.)                                    *)
(***************************************************************************)
ReadTheCart == {t \in Threads : inflight[t].method = "POST" /\ inflight[t].cart_ids # <<>>}

C18_OneOrderPerCart ==
    (\E t1, t2 \in ReadTheCart : t1 # t2 /\ inflight[t1].cart_ids = inflight[t2].cart_ids)
    => Len(orders) <= 1

(***************************************************************************)
(* C18, amended: an Order is created once per successful checkout POST     *)
(* submission, not once per cart.  The Orders are as many as the checkout  *)
(* POSTs answered with the success page, each of which read a non-empty    *)
(* cart; a POST that reads the session after the cart was cleared is       *)
(* redirected and creates none, and two POSTs that both read the cart      *)
(* before either clears it create one Order each.                          *)
(***************************************************************************)
Submitted == {t \in Threads : /\ inflight[t].pc = "done"
                              /\ inflight[t].method = "POST"
                              /\ inflight[t].status = 200}

C18_OneOrderPerSubmission ==
    /\ Len(orders) = Cardinality(Submitted)
    /\ Submitted \subseteq ReadTheCart
    /\ \A t \in Threads :
          (inflight[t].pc = "done" /\ inflight[t].cart_ids = <<>>) => inflight[t].status = 302

C18_Witness ==
    /\ Len(orders) = 2
    /\ Submitted = Threads
    /\ inflight[1].cart_ids = inflight[2].cart_ids
    /\ "cart" \notin DOMAIN session

====
